---- MODULE Spec2Model ----
(***************************************************************************)
(* Model of feldspar's inventory backend (src/src/plugins/inventory.rs):   *)
(* ItemStack, Inventory, the InventoryRequest / InventoryResult /          *)
(* InventoryChanged events and the system apply_inventory_requests.        *)
(*                                                                         *)
(* Option<T> is modelled as a sequence of length at most one: None is the  *)
(* empty sequence and Some(x) the sequence holding x.                      *)
(***************************************************************************)
EXTENDS Integers, Sequences, FiniteSets, TLC

\* ---------------------------------------------------------------- bounds

\* Largest count / amount drawn for stacks and Move amounts.
MaxCount == 2
\* Largest number of requests waiting in the request event buffer.
MaxQueue == 2
\* The largest value of a count word. The source's counts, max_stacks and
\* amounts are u16 (0..65535); the model keeps the same arithmetic on a
\* narrower word.
WordMax == 3

\* ------------------------------------------------------------ Option<T>

None == <<>>
Some(x) == <<x>>
IsSome(o) == o # <<>>
Unwrap(o) == o[1]

\* u16 minimum, u16::min
Min(a, b) == IF a <= b THEN a ELSE b

\* ------------------------------------------------------------ ItemStack

\* ItemStack::new
ItemStackNew(id, count, max_stack) ==
    [id |-> id, count |-> count, max_stack |-> max_stack]

\* A variant of ItemStack::space_left that subtracts with wrap-around
\* (wrapping_sub) where the source saturates.
space_left_wrapping(s) == (s.max_stack - s.count) % (WordMax + 1)

\* ItemStack::space_left: self.max_stack.saturating_sub(self.count)
space_left(s) ==
    IF s.max_stack >= s.count THEN s.max_stack - s.count ELSE 0

\* ItemStack::is_full
is_full(s) == s.count >= s.max_stack

\* ItemStack::is_empty
is_empty(s) == s.count = 0

\* ------------------------------------------------------------ Inventory

\* Inventory::new: the slot map is sparse, it starts with no key.
InventoryNew(capacity) == [capacity |-> capacity, slots |-> <<>>]

\* Inventory::get: HashMap::get, None for an absent key.
InvGet(c, i) == IF i \in DOMAIN c.slots THEN Some(c.slots[i]) ELSE None

\* Inventory::set: HashMap::insert for Some, HashMap::remove for None.
\* A variant of Inventory::set that rebuilds the map from the one slot it is
\* given and so forgets every other slot.
InvSetForgetsOthers(c, i, stack) ==
    IF IsSome(stack)
    THEN [c EXCEPT !.slots = [k \in {i} |-> Unwrap(stack)]]
    ELSE [c EXCEPT !.slots = <<>>]

InvSet(c, i, stack) ==
    IF IsSome(stack)
    THEN [c EXCEPT !.slots =
            [k \in (DOMAIN c.slots) \cup {i} |->
                IF k = i THEN Unwrap(stack) ELSE c.slots[k]]]
    ELSE [c EXCEPT !.slots =
            [k \in (DOMAIN c.slots) \ {i} |-> c.slots[k]]]

\* Inventory::in_bounds
in_bounds(c, i) == i < c.capacity

\* ------------------------------------------------- the world of entities

\* Entity handles a request can name. "A" and "B" carry an Inventory
\* component; "X" is an entity without one (or a despawned one).
Entities == {"A", "B", "X"}

\* The world as Query<&mut Inventory> sees it: the entities that have an
\* Inventory, with the component's value.  build_inventory spawns
\* Inventory::new(capacity).
InitialWorld ==
    [e \in {"A", "B"} |-> InventoryNew(IF e = "A" THEN 2 ELSE 1)]

\* The entities that own containers (a player, a chest, a machine).
Owners == {"P", "Q"}

\* The function f on the elements of S only.
Restrict(f, S) == [x \in S |-> f[x]]

\* The ownership side of the world: the owners alive, the InventoryOwnedBy
\* component of each container that has one, and the container handles
\* whose entity was despawned (a handle is never valid again).
\* In InitialWorld owner "P" has built "A" and "B", and "X" is gone.
InitialEcs ==
    [owners    |-> {"P"},
     owned_by  |-> [e \in {"A", "B"} |-> "P"],
     despawned |-> {"X"}]

\* Mutant of LinkedContainers: the relationship is not a linked_spawn one.
LinkedContainersNone(e, o) == {}

\* EntityInventoryVector of owner o: the containers whose InventoryOwnedBy
\* names o.  With linked_spawn they are despawned with o.
LinkedContainers(e, o) == {c \in DOMAIN e.owned_by : e.owned_by[c] = o}

\* Query::get_mut(e): Ok exactly when e has the component.
GetMut(w, e) == e \in DOMAIN w

\* Mutant of GetManyMut: the same entity named twice is not rejected.
GetManyMutAliased(w, a, b) == a \in DOMAIN w /\ b \in DOMAIN w

\* Query::get_many_mut([a, b]): Err when an entity is missing, and Err
\* (QueryEntityError::AliasedMutability) when the same entity is named twice.
GetManyMut(w, a, b) == a \in DOMAIN w /\ b \in DOMAIN w /\ a # b

\* Write slot i of the Inventory of entity e.
WorldSet(w, e, i, stack) == [w EXCEPT ![e] = InvSet(w[e], i, stack)]

\* ---------------------------------------------------------------- events

SlotChange(slot, new_stack) == [slot |-> slot, new_stack |-> new_stack]

InventoryChanged(e, changes) == [inv |-> e, changes |-> changes]

InventoryResult(id, ok, details) == [id |-> id, ok |-> ok, details |-> details]

SetAction(e, slot, stack) ==
    [kind |-> "Set", inv |-> e, slot |-> slot, stack |-> stack]

MoveAction(from_inv, from_slot, to_inv, to_slot, amount, allow_swap) ==
    [kind |-> "Move", from_inv |-> from_inv, from_slot |-> from_slot,
     to_inv |-> to_inv, to_slot |-> to_slot,
     amount |-> amount, allow_swap |-> allow_swap]

InventoryRequest(id, action) == [id |-> id, action |-> action]

\* changed_per_inv.entry(e).or_default().push(change): the map is kept as
\* the sequence of its entries in order of first insertion.
PushChange(cpi, e, change) ==
    IF \E k \in DOMAIN cpi : cpi[k].inv = e
    THEN [k \in DOMAIN cpi |->
            IF cpi[k].inv = e
            THEN InventoryChanged(e, Append(cpi[k].changes, change))
            ELSE cpi[k]]
    ELSE Append(cpi, InventoryChanged(e, <<change>>))

\* The outcome of a request's closure: the world it leaves, Ok/Err with the
\* message, and changed_per_inv.
Outcome(w, ok, details, cpi) ==
    [world |-> w, ok |-> ok, details |-> details, changed |-> cpi]

Err(w, msg) == Outcome(w, FALSE, Some(msg), <<>>)

\* ------------------------------------------ apply_inventory_requests

\* Mutant of ApplySet: the slot is written before the bounds check.
ApplySetWriteFirst(w, a) ==
    IF ~GetMut(w, a.inv) THEN Err(w, "Inventory entity not found")
    ELSE IF ~in_bounds(w[a.inv], a.slot)
    THEN Outcome(WorldSet(w, a.inv, a.slot, a.stack), FALSE,
                 Some("Slot out of bounds"), <<>>)
    ELSE Outcome(WorldSet(w, a.inv, a.slot, a.stack), TRUE, None,
                 PushChange(<<>>, a.inv, SlotChange(a.slot, a.stack)))

\* Mutant of ApplySet: a stack set onto a slot holding the same item is
\* added to it instead of replacing it.
ApplySetMerges(w, a) ==
    IF ~GetMut(w, a.inv) THEN Err(w, "Inventory entity not found")
    ELSE IF ~in_bounds(w[a.inv], a.slot) THEN Err(w, "Slot out of bounds")
    ELSE LET old == InvGet(w[a.inv], a.slot)
             new == IF IsSome(a.stack) /\ IsSome(old)
                       /\ Unwrap(old).id = Unwrap(a.stack).id
                    THEN Some([Unwrap(a.stack) EXCEPT
                                 !.count = @ + Unwrap(old).count])
                    ELSE a.stack
         IN  Outcome(WorldSet(w, a.inv, a.slot, new), TRUE, None,
                     PushChange(<<>>, a.inv, SlotChange(a.slot, new)))

\* Mutant of ApplySet: a Set that leaves the slot as it was records no
\* change.
ApplySetSkipsUnchanged(w, a) ==
    IF ~GetMut(w, a.inv) THEN Err(w, "Inventory entity not found")
    ELSE IF ~in_bounds(w[a.inv], a.slot) THEN Err(w, "Slot out of bounds")
    ELSE IF InvGet(w[a.inv], a.slot) = a.stack
    THEN Outcome(w, TRUE, None, <<>>)
    ELSE Outcome(WorldSet(w, a.inv, a.slot, a.stack), TRUE, None,
                 PushChange(<<>>, a.inv, SlotChange(a.slot, a.stack)))

\* The Set branch (the closure of lines 153-164).
ApplySet(w, a) ==
    IF ~GetMut(w, a.inv) THEN Err(w, "Inventory entity not found")
    ELSE IF ~in_bounds(w[a.inv], a.slot) THEN Err(w, "Slot out of bounds")
    ELSE Outcome(WorldSet(w, a.inv, a.slot, a.stack), TRUE, None,
                 PushChange(<<>>, a.inv, SlotChange(a.slot, a.stack)))

\* Mutant of MoveChanges: only the source slot is recorded.
MoveChangesSourceOnly(w, a) ==
    PushChange(<<>>, a.from_inv,
               SlotChange(a.from_slot, InvGet(w[a.from_inv], a.from_slot)))

\* The two change records every successful Move pushes: the source slot
\* first, then the destination slot, each read back from the inventory.
MoveChanges(w, a) ==
    PushChange(
        PushChange(<<>>, a.from_inv,
                   SlotChange(a.from_slot, InvGet(w[a.from_inv], a.from_slot))),
        a.to_inv,
        SlotChange(a.to_slot, InvGet(w[a.to_inv], a.to_slot)))

\* Write the source slot back after count units left it: the slot is
\* removed when nothing is left.
WriteBackSource(w, a, src_stack, count) ==
    IF count = 0
    THEN WorldSet(w, a.from_inv, a.from_slot, None)
    ELSE WorldSet(w, a.from_inv, a.from_slot,
                  Some([src_stack EXCEPT !.count = count]))

\* Mutant of MoveToEmpty: a source left with count 0 stays in its slot.
MoveToEmptyLeavesZero(w, a, src_stack, move_n) ==
    LET moved == ItemStackNew(src_stack.id, move_n, src_stack.max_stack)
        w1 == WorldSet(w, a.to_inv, a.to_slot, Some(moved))
        w2 == WorldSet(w1, a.from_inv, a.from_slot,
                       Some([src_stack EXCEPT !.count = src_stack.count - move_n]))
    IN  Outcome(w2, TRUE, None, MoveChanges(w2, a))

\* Destination empty: simple move (lines 195-206).
MoveToEmpty(w, a, src_stack, move_n) ==
    LET moved == ItemStackNew(src_stack.id, move_n, src_stack.max_stack)
        w1 == WorldSet(w, a.to_inv, a.to_slot, Some(moved))
        w2 == WriteBackSource(w1, a, src_stack, src_stack.count - move_n)
    IN  Outcome(w2, TRUE, None, MoveChanges(w2, a))

\* Mutant of MoveMerge: the room is measured with the max_stack of the
\* source stack.
MoveMergeUsesSourceMax(w, a, src_stack, dst_stack, move_n) ==
    LET can_take == IF src_stack.max_stack >= dst_stack.count
                    THEN src_stack.max_stack - dst_stack.count ELSE 0
        take == Min(move_n, can_take)
        w1 == WorldSet(w, a.to_inv, a.to_slot,
                       Some([dst_stack EXCEPT !.count = dst_stack.count + take]))
        w2 == WriteBackSource(w1, a, src_stack, src_stack.count - take)
    IN  IF take = 0 THEN Err(w, "Destination stack full")
        ELSE Outcome(w2, TRUE, None, MoveChanges(w2, a))

\* Mutant of MoveMerge: the source is decremented by move_n, not by take.
MoveMergeDropsShortfall(w, a, src_stack, dst_stack, move_n) ==
    LET can_take == space_left(dst_stack)
        take == Min(move_n, can_take)
        w1 == WorldSet(w, a.to_inv, a.to_slot,
                       Some([dst_stack EXCEPT !.count = dst_stack.count + take]))
        w2 == WriteBackSource(w1, a, src_stack, src_stack.count - move_n)
    IN  IF take = 0 THEN Err(w, "Destination stack full")
        ELSE Outcome(w2, TRUE, None, MoveChanges(w2, a))

\* Mutant of MoveMerge: a merge that does not fit whole is refused.
MoveMergeAllOrNothing(w, a, src_stack, dst_stack, move_n) ==
    LET can_take == space_left(dst_stack)
        w1 == WorldSet(w, a.to_inv, a.to_slot,
                       Some([dst_stack EXCEPT !.count = dst_stack.count + move_n]))
        w2 == WriteBackSource(w1, a, src_stack, src_stack.count - move_n)
    IN  IF move_n > can_take THEN Err(w, "Destination stack full")
        ELSE Outcome(w2, TRUE, None, MoveChanges(w2, a))

\* Destination holds the same item: merge (lines 209-226).
MoveMerge(w, a, src_stack, dst_stack, move_n) ==
    LET can_take == space_left(dst_stack)
        take == Min(move_n, can_take)
        w1 == WorldSet(w, a.to_inv, a.to_slot,
                       Some([dst_stack EXCEPT !.count = dst_stack.count + take]))
        w2 == WriteBackSource(w1, a, src_stack, src_stack.count - take)
    IN  IF take = 0 THEN Err(w, "Destination stack full")
        ELSE Outcome(w2, TRUE, None, MoveChanges(w2, a))

\* Mutant of MoveSwap: the stacks are exchanged but keep the max_stack of
\* the slot they land in.
MoveSwapKeepsSlotMax(w, a, src_stack, dst_stack, move_n) ==
    IF a.allow_swap /\ move_n = src_stack.count
    THEN LET w1 == WorldSet(w, a.to_inv, a.to_slot,
                            Some([src_stack EXCEPT !.max_stack = dst_stack.max_stack]))
             w2 == WorldSet(w1, a.from_inv, a.from_slot,
                            Some([dst_stack EXCEPT !.max_stack = src_stack.max_stack]))
         IN  Outcome(w2, TRUE, None, MoveChanges(w2, a))
    ELSE Err(w, "Destination occupied by different item (swap not allowed)")

\* Mutant of MoveSwap: the swap is done whatever amount was asked.
MoveSwapAnyAmount(w, a, src_stack, dst_stack, move_n) ==
    IF a.allow_swap
    THEN LET w1 == WorldSet(w, a.to_inv, a.to_slot, Some(src_stack))
             w2 == WorldSet(w1, a.from_inv, a.from_slot, Some(dst_stack))
         IN  Outcome(w2, TRUE, None, MoveChanges(w2, a))
    ELSE Err(w, "Destination occupied by different item (swap not allowed)")

\* Destination holds another item: full-stack swap or failure
\* (lines 227-238).
MoveSwap(w, a, src_stack, dst_stack, move_n) ==
    IF a.allow_swap /\ move_n = src_stack.count
    THEN LET w1 == WorldSet(w, a.to_inv, a.to_slot, Some(src_stack))
             w2 == WorldSet(w1, a.from_inv, a.from_slot, Some(dst_stack))
         IN  Outcome(w2, TRUE, None, MoveChanges(w2, a))
    ELSE Err(w, "Destination occupied by different item (swap not allowed)")

\* Mutant of ApplyMove: a Move from an empty slot is a successful no-op.
ApplyMoveEmptySourceOk(w, a) ==
    IF ~GetManyMut(w, a.from_inv, a.to_inv)
    THEN Err(w, "Source or destination inventory not found")
    ELSE IF ~in_bounds(w[a.from_inv], a.from_slot)
            \/ ~in_bounds(w[a.to_inv], a.to_slot)
    THEN Err(w, "Slot out of bounds")
    ELSE IF ~IsSome(InvGet(w[a.from_inv], a.from_slot))
    THEN Outcome(w, TRUE, None, <<>>)
    ELSE
      LET src_stack == Unwrap(InvGet(w[a.from_inv], a.from_slot))
          move_n == Min(a.amount, src_stack.count)
          dst == InvGet(w[a.to_inv], a.to_slot)
      IN  IF move_n = 0 THEN Err(w, "Move amount is zero")
          ELSE IF ~IsSome(dst) THEN MoveToEmpty(w, a, src_stack, move_n)
          ELSE IF Unwrap(dst).id = src_stack.id
               THEN MoveMerge(w, a, src_stack, Unwrap(dst), move_n)
               ELSE MoveSwap(w, a, src_stack, Unwrap(dst), move_n)

\* The Move branch (the closure of lines 176-244).
ApplyMove(w, a) ==
    IF ~GetManyMut(w, a.from_inv, a.to_inv)
    THEN Err(w, "Source or destination inventory not found")
    ELSE IF ~in_bounds(w[a.from_inv], a.from_slot)
            \/ ~in_bounds(w[a.to_inv], a.to_slot)
    THEN Err(w, "Slot out of bounds")
    ELSE IF ~IsSome(InvGet(w[a.from_inv], a.from_slot))
    THEN Err(w, "Source slot empty")
    ELSE
      LET src_stack == Unwrap(InvGet(w[a.from_inv], a.from_slot))
          move_n == Min(a.amount, src_stack.count)
          dst == InvGet(w[a.to_inv], a.to_slot)
      IN  IF move_n = 0 THEN Err(w, "Move amount is zero")
          ELSE IF ~IsSome(dst) THEN MoveToEmpty(w, a, src_stack, move_n)
          ELSE IF Unwrap(dst).id = src_stack.id
               THEN MoveMerge(w, a, src_stack, Unwrap(dst), move_n)
               ELSE MoveSwap(w, a, src_stack, Unwrap(dst), move_n)

\* match &req.action
ApplyAction(w, a) ==
    IF a.kind = "Set" THEN ApplySet(w, a) ELSE ApplyMove(w, a)

Reverse(s) == [i \in 1..Len(s) |-> s[Len(s) + 1 - i]]

\* The loop "for (inv, changes) in changed_per_inv" (lines 250-254): one
\* InventoryChanged per entry whose changes are not empty.  The iteration
\* order of a HashMap is not specified: flip chooses between the two
\* orders of the at most two entries.
EmitChanged(changed, cpi, flip) ==
    LET nonempty == SelectSeq(cpi, LAMBDA n : n.changes # <<>>)
    IN  changed \o (IF flip THEN Reverse(nonempty) ELSE nonempty)

\* Mutant of EmitResult: a failed request gets no result.
EmitResultOnlyOk(results, req, out) ==
    IF out.ok
    THEN Append(results, InventoryResult(req.id, out.ok, out.details))
    ELSE results

\* ev_out_result.write(InventoryResult { id: req.id, ok, details })
EmitResult(results, req, out) ==
    Append(results, InventoryResult(req.id, out.ok, out.details))

\* One iteration of "for req in ev_in.read()" (lines 142-257): run the
\* request's closure, emit its InventoryChanged batches, emit its
\* InventoryResult.  st.log keeps, per applied request, what it did.
ApplyRequest(st, req, flip) ==
    LET out == ApplyAction(st.world, req.action)
    IN  [world   |-> out.world,
         changed |-> EmitChanged(st.changed, out.changed, flip),
         results |-> EmitResult(st.results, req, out),
         log     |-> Append(st.log,
                        [req     |-> req,
                         before  |-> st.world,
                         after   |-> out.world,
                         ok      |-> out.ok,
                         details |-> out.details,
                         changed |-> EmitChanged(<<>>, out.changed, flip)])]

\* Mutant of ApplyAll: the first failing request ends the loop.
RECURSIVE ApplyAllStopsAtFailure(_, _, _, _)
ApplyAllStopsAtFailure(st, reqs, flips, i) ==
    IF i > Len(reqs) THEN st
    ELSE CHOOSE r \in {IF x.log[Len(x.log)].ok
                          THEN ApplyAllStopsAtFailure(x, reqs, flips, i + 1)
                          ELSE x :
                          x \in {ApplyRequest(st, reqs[i], flips[i])}} : TRUE

\* Mutant of ApplyAll: every request of a run is applied to the world as
\* it was when the run began.
RECURSIVE ApplyAllOnSnapshot(_, _, _, _)
ApplyAllOnSnapshot(st, reqs, flips, i) ==
    IF i > Len(reqs) THEN st
    ELSE CHOOSE r \in {ApplyAllOnSnapshot(x, reqs, flips, i + 1) :
                          x \in {ApplyRequest(
                                    [st EXCEPT !.world =
                                        IF i = 1 THEN st.world
                                        ELSE st.log[Len(st.log) - i + 2].before],
                                    reqs[i], flips[i])}} : TRUE

\* The whole loop over the requests read in this run of the system, in
\* the order they were sent.  (The state after request i is bound as a
\* value before request i + 1 is applied to it.)
RECURSIVE ApplyAll(_, _, _, _)
ApplyAll(st, reqs, flips, i) ==
    IF i > Len(reqs) THEN st
    ELSE CHOOSE r \in {ApplyAll(x, reqs, flips, i + 1) :
                          x \in {ApplyRequest(st, reqs[i], flips[i])}} : TRUE

\* --------------------------------------------------------- ItemInstance

\* ItemInstance { item, qty } (item.rs)
ItemInstance(item, qty) == [item |-> item, qty |-> qty]

\* ItemInstance::can_stack_with
can_stack_with(self, other) == self.item = other.item

\* Mutant of absorb_from: everything of other is taken, max_stack or not.
absorb_from_uncapped(self, other, max_stack) ==
    IF ~can_stack_with(self, other)
    THEN [self |-> self, other |-> other, ret |-> other.qty]
    ELSE [self  |-> [self EXCEPT !.qty = self.qty + other.qty],
          other |-> [other EXCEPT !.qty = 0],
          ret   |-> 0]

\* ItemInstance::absorb_from(&mut self, &mut other, max_stack) -> u16:
\* the two instances after the call and the value returned.
absorb_from(self, other, max_stack) ==
    IF ~can_stack_with(self, other)
    THEN [self |-> self, other |-> other, ret |-> other.qty]
    ELSE LET space == IF max_stack >= self.qty THEN max_stack - self.qty ELSE 0
             take == Min(space, other.qty)
         IN  [self  |-> [self EXCEPT !.qty = self.qty + take],
              other |-> [other EXCEPT !.qty = other.qty - take],
              ret   |-> other.qty - take]

\* ------------------------------------------- GameState and the player

\* pitch is clamped to -89.9 .. 89.9 degrees; one unit here is one mouse
\* count times the sensitivity, and the clamp is PitchClamp units.
PitchClamp == 2

Clamp(x, lo, hi) == IF x < lo THEN lo ELSE IF x > hi THEN hi ELSE x

\* App start: GameState::default() is Playing, NextState is unchanged, the
\* window has the default cursor options (visible, CursorGrabMode::None)
\* and the player PlayerController::default().  translation counts the
\* steps made forward and to the right.
InitialGame ==
    [state  |-> "Playing",
     next   |-> None,
     cursor |-> [visible |-> TRUE, grab_mode |-> "None"],
     player |-> [yaw |-> 0, pitch |-> 0, translation |-> <<0, 0>>]]

\* capture_mouse
capture_mouse(g) ==
    [g EXCEPT !.cursor = [visible |-> FALSE, grab_mode |-> "Locked"]]

\* free_mouse
free_mouse(g) ==
    [g EXCEPT !.cursor = [visible |-> TRUE, grab_mode |-> "None"]]

\* toggle_pause, esc being keys.just_pressed(KeyCode::Escape)
toggle_pause(g, esc) ==
    IF esc
    THEN [g EXCEPT !.next = Some(IF g.state = "Playing" THEN "Paused" ELSE "Playing")]
    ELSE g

\* The StateTransition schedule: NextState is applied, with
\* OnExit(Paused) -> capture_mouse and OnEnter(Paused) -> free_mouse.
StateTransition(g) ==
    IF ~IsSome(g.next) THEN g
    ELSE IF Unwrap(g.next) = g.state THEN [g EXCEPT !.next = None]
    ELSE LET left == IF g.state = "Paused" THEN capture_mouse(g) ELSE g
             entered == [left EXCEPT !.state = Unwrap(g.next), !.next = None]
         IN  IF entered.state = "Paused" THEN free_mouse(entered) ELSE entered

\* handle_input_mouse, delta being the sum of the MouseMotion events.
handle_input_mouse(g, delta) ==
    IF delta = <<0, 0>> THEN g
    ELSE [g EXCEPT !.player.yaw = @ - delta[1],
                   !.player.pitch = Clamp(@ - delta[2], -PitchClamp, PitchClamp)]

\* handle_input_movement, keys being the keys input.pressed() reports.
handle_input_movement(g, keys) ==
    LET dir == << (IF "W" \in keys THEN 1 ELSE 0) - (IF "S" \in keys THEN 1 ELSE 0),
                  (IF "D" \in keys THEN 1 ELSE 0) - (IF "A" \in keys THEN 1 ELSE 0) >>
    IN  IF dir = <<0, 0>> THEN g
        ELSE [g EXCEPT !.player.translation = <<@[1] + dir[1], @[2] + dir[2]>>]

\* The two input systems in a chain.
InputChain(g, delta, keys) ==
    handle_input_movement(handle_input_mouse(g, delta), keys)

\* PreUpdate: the systems PlayerControllerPlugin adds (no run condition),
\* and the same two systems added again by main with
\* run_if(in_state(GameState::Playing)).
PreUpdate(g, delta, keys) ==
    LET g1 == InputChain(g, delta, keys)
    IN  IF g1.state = "Playing" THEN InputChain(g1, delta, keys) ELSE g1

\* One frame: PreUpdate, StateTransition, Update.
FrameOf(g, esc, delta, keys) ==
    toggle_pause(StateTransition(PreUpdate(g, delta, keys)), esc)

\* ------------------------------------------------- dragging UI items

\* UI entities: two items, a grid slot, a slot that is also a UiFreeDrop
\* area, and the UiDragOverlay.
UiItems == {"i1", "i2"}
UiSlots == {"s1", "f1"}
UiFreeDropSlots == {"f1"}
UiOverlay == "ov"

\* SLOT_SIZE * 0.5, the grab offset of a picked item (one coordinate stands
\* for the Vec2).
HalfSlot == 40

\* cursor_px_in_node(comp, rel): the pixel of a free drop area under the
\* cursor, for the relative cursor positions followed.
CursorPx == {40, 50}

\* UiDragState::default()
UiDragStateDefault ==
    [item |-> None, origin_slot |-> None, hovered_slot |-> None,
     grab_offset |-> 0, origin_free_drop_px |-> None]

\* spawn_item_in_slot: an item is a child of its slot, FocusPolicy::Block,
\* ZIndex(0), and its Node has the default PositionType::Relative.  Item
\* "i1" sits in the grid slot, "i2" in the free drop area.  commands holds
\* the set_parent_in_place commands queued by the systems of the running
\* frame; it is empty between frames.
InitialUi ==
    [drag  |-> UiDragStateDefault,
     nodes |-> [i \in UiItems |->
                  [parent |-> IF i = "i1" THEN "s1" ELSE "f1",
                   focus |-> "Block",
                   position_type |-> "Relative",
                   z |-> 0]],
     commands |-> <<>>]

\* commands.entity(item).set_parent_in_place(parent), queued by a system:
\* the ChildOf of the item changes when the commands are applied.
SetParentInPlace(u, system, item, parent) ==
    [u EXCEPT !.commands =
        Append(@, [system |-> system, entity |-> item, parent |-> parent])]

\* The body of the for loop of pick_up_item for one item whose Interaction
\* changed to Pressed (lines 391-436).  cursor is
\* window.cursor_position(): None, or Some of the pixel under it.  parent
\* is the ChildOf the query reads: a reparenting queued in this frame is
\* not in it yet.
PickUpOne(u, item, cursor) ==
    LET parent == u.nodes[item].parent
        u1 == [u EXCEPT !.nodes[item].focus = "Pass",
                        !.drag.origin_slot = Some(parent),
                        !.drag.item = Some(item)]
    IN  IF ~IsSome(cursor) THEN u1
        ELSE SetParentInPlace(
               [u1 EXCEPT
                  !.drag.grab_offset = HalfSlot,
                  !.drag.origin_free_drop_px =
                      IF parent \in UiFreeDropSlots
                      THEN Some(Unwrap(cursor) - HalfSlot) ELSE None,
                  !.nodes[item].position_type = "Absolute",
                  !.nodes[item].z = 999],
               "pick_up_item", item, UiOverlay)

\* The for loop over the items whose Interaction changed to Pressed this
\* frame, in the order the query yields them.
RECURSIVE PickUpLoop(_, _, _)
PickUpLoop(u, pressed, cursor) ==
    IF pressed = <<>> THEN u
    ELSE PickUpLoop(PickUpOne(u, Head(pressed), cursor), Tail(pressed), cursor)

\* pick_up_item
pick_up_item(u, pressed, cursor) ==
    IF IsSome(u.drag.item) THEN u ELSE PickUpLoop(u, pressed, cursor)

\* track_hovered_slot for one slot whose Interaction changed.
track_hovered_slot(u, slot, interaction) ==
    IF ~IsSome(u.drag.item) THEN u
    ELSE IF interaction = "Hovered"
    THEN [u EXCEPT !.drag.hovered_slot = Some(slot)]
    ELSE IF u.drag.hovered_slot = Some(slot)
    THEN [u EXCEPT !.drag.hovered_slot = None]
    ELSE u

\* drop_item_on_click_release, released being
\* buttons.just_released(MouseButton::Left).
drop_item_on_click_release(u, released) ==
    IF ~IsSome(u.drag.item) \/ ~released THEN u
    ELSE
      LET item == Unwrap(u.drag.item)
          target_parent == IF IsSome(u.drag.hovered_slot)
                           THEN u.drag.hovered_slot ELSE u.drag.origin_slot
          queued == IF ~IsSome(target_parent) THEN u
                    ELSE SetParentInPlace(u, "drop_item_on_click_release",
                                          item, Unwrap(target_parent))
          node == u.nodes[item]
          placed == IF ~IsSome(target_parent) THEN node
                    ELSE [node EXCEPT
                            !.position_type =
                                IF Unwrap(target_parent) \in UiFreeDropSlots
                                THEN "Absolute" ELSE "Relative"]
      IN  [queued EXCEPT
              !.nodes[item] = [placed EXCEPT !.focus = "Block", !.z = 0],
              !.drag.item = None,
              !.drag.origin_slot = None,
              !.drag.hovered_slot = None,
              !.drag.grab_offset = 0]

\* The systems UiInventoryPlugin adds to Update that change the drag state
\* or the items.  (dragged_item_follow_cursor writes only the left and top
\* of the dragged node, which the model does not carry.)
UiSystems == {"pick_up_item", "track_hovered_slot", "drop_item_on_click_release"}

\* One system of the frame, run on the frame's input: the items whose
\* Interaction changed to Pressed, the cursor, the slot whose Interaction
\* changed (if one did) and whether the left button was just released.
RunUiSystem(u, system, in) ==
    IF system = "pick_up_item"
    THEN pick_up_item(u, in.pressed, in.cursor)
    ELSE IF system = "track_hovered_slot"
    THEN IF IsSome(in.slot)
         THEN track_hovered_slot(u, Unwrap(in.slot).slot, Unwrap(in.slot).interaction)
         ELSE u
    ELSE drop_item_on_click_release(u, in.released)

\* The queued reparentings cmds, applied one after the other.
RECURSIVE SetParents(_, _)
SetParents(nodes, cmds) ==
    IF cmds = <<>> THEN nodes
    ELSE SetParents([nodes EXCEPT ![Head(cmds).entity].parent = Head(cmds).parent],
                    Tail(cmds))

\* The command buffers of the frame's systems, applied at the end of the
\* schedule: each system's commands in the order it queued them, the buffer
\* of pick_up_item before or after that of drop_item_on_click_release.
ApplyDeferred(u, pick_first) ==
    LET p == SelectSeq(u.commands, LAMBDA c : c.system = "pick_up_item")
        d == SelectSeq(u.commands,
                       LAMBDA c : c.system = "drop_item_on_click_release")
    IN  [u EXCEPT !.nodes = SetParents(@, IF pick_first THEN p \o d ELSE d \o p),
                  !.commands = <<>>]

\* One run of the Update schedule: the systems are added without ordering
\* (lines 284-292), so they run in any order, each on what the ones before
\* it left, and their commands are applied after all of them ran.
UiUpdate(u, in, order, pick_first) ==
    ApplyDeferred(
        RunUiSystem(RunUiSystem(RunUiSystem(u, order[1], in), order[2], in),
                    order[3], in),
        pick_first)

\* ------------------------------------------------------------ the state

VARIABLES
    inv,        \* Query<&mut Inventory>: entity -> Inventory
    queue,      \* InventoryRequest events sent and not yet read
    results,    \* InventoryResult events written and not yet dropped
    changed,    \* InventoryChanged events written and not yet dropped
    log,        \* per request applied since the last drop: what it did
    ecs,        \* the owners and the InventoryOwnedBy components
    absorb,     \* a call of ItemInstance::absorb_from: arguments and outcome
    game,       \* GameState, NextState, the window's cursor, the player
    ui          \* UiDragState and the UI nodes of the items

\* The variables of the inventory requests, and the others.
inv_vars == <<inv, queue, results, changed, log, ecs>>
side_vars == <<absorb, game, ui>>

vars == <<inv, queue, results, changed, log, ecs, absorb, game, ui>>

\* No call of absorb_from is being looked at.
AbsorbIdle == [called |-> FALSE, max_stack |-> 0, pre |-> None, post |-> None,
               ret |-> None]

\* What the variables other than the inventory's hold while only the
\* inventory runs.
SideIdle == absorb = AbsorbIdle /\ game = InitialGame /\ ui = InitialUi

\* ------------------------------------------------------- input universes

ItemIds == {1, 2}
CorrIds == {0, 1}
Slots == {0, 1}
Amounts == 0..MaxCount

\* The stacks a request or a slot can hold: any count, also 0 and above
\* max_stack, since ItemStack::new and Set accept any.
\* Item 1 is met with two different max_stack values, item 2 with one.
Stacks ==
    {s \in {ItemStackNew(id, c, m) :
                id \in ItemIds, c \in 0..MaxCount, m \in {1, MaxCount}} :
        s.id = 2 => s.max_stack = MaxCount}

Payloads == {None} \cup {Some(s) : s \in Stacks}

SetActions ==
    {SetAction(e, i, p) : e \in Entities, i \in Slots, p \in Payloads}

MoveActions ==
    {MoveAction(f, fs, t, ts, n, sw) :
        f \in Entities, fs \in Slots, t \in Entities, ts \in Slots,
        n \in Amounts, sw \in BOOLEAN}

\* Every inventory of the given capacity whose keys are below the capacity:
\* each is reached from Inventory::new by Set requests.
Inventories(capacity) ==
    UNION {
        {[capacity |-> capacity, slots |-> f] : f \in [K -> Stacks]} :
        K \in SUBSET (0..(capacity - 1)) }

Worlds ==
    {[e \in {"A", "B"} |-> IF e = "A" THEN a ELSE b] :
        a \in Inventories(InitialWorld["A"].capacity),
        b \in Inventories(InitialWorld["B"].capacity)}

\* ---------------------------------------------------------------- actions

\* Mutant of apply_inventory_requests: the requests read stay pending and
\* are read again by the next run.
apply_inventory_requests_rereads ==
    /\ queue # <<>>
    /\ \E flips \in [1..Len(queue) -> BOOLEAN] :
        \E st \in {ApplyAll([world |-> inv, changed |-> changed,
                             results |-> results, log |-> log],
                            queue, flips, 1)} :
            /\ inv' = st.world
            /\ changed' = st.changed
            /\ results' = st.results
            /\ log' = st.log
            /\ queue' = queue
            /\ UNCHANGED ecs
            /\ UNCHANGED side_vars

\* The system apply_inventory_requests: reads every pending request.
apply_inventory_requests ==
    \E flips \in [1..Len(queue) -> BOOLEAN] :
        \E st \in {ApplyAll([world |-> inv, changed |-> changed,
                             results |-> results, log |-> log],
                            queue, flips, 1)} :
            /\ inv' = st.world
            /\ changed' = st.changed
            /\ results' = st.results
            /\ log' = st.log
            /\ queue' = <<>>
            /\ UNCHANGED ecs
            /\ UNCHANGED side_vars

\* The requests the gameplay / UI side sends in the running system: a few
\* of each kind, succeeding and failing.
MenuActions ==
    { SetAction("A", 0, Some(ItemStackNew(1, MaxCount, 1))),
      SetAction("A", 1, Some(ItemStackNew(2, 0, MaxCount))),
      SetAction("B", 0, Some(ItemStackNew(1, 1, MaxCount))),
      SetAction("X", 0, None),
      MoveAction("A", 0, "B", 0, 1, FALSE),
      MoveAction("A", 0, "A", 1, 1, FALSE) }

\* EventWriter<InventoryRequest>::write by a sender.  The buffers are kept
\* bounded: at most MaxQueue requests wait, and a sender writes once the
\* results of the previous run have been dropped.
Submit ==
    /\ Len(queue) < MaxQueue
    /\ results = <<>>
    /\ \E id \in CorrIds, a \in MenuActions :
          queue' = Append(queue, InventoryRequest(id, a))
    /\ UNCHANGED <<inv, results, changed, log, ecs>>
    /\ UNCHANGED side_vars

\* The InventoryResult and InventoryChanged buffers are emptied (events
\* registered with add_event are dropped by the event update).
Drain ==
    /\ results # <<>>
    /\ results' = <<>>
    /\ changed' = <<>>
    /\ log' = <<>>
    /\ UNCHANGED <<inv, queue, ecs>>
    /\ UNCHANGED side_vars

Init ==
    /\ inv = InitialWorld
    /\ queue = <<>>
    /\ results = <<>>
    /\ changed = <<>>
    /\ log = <<>>
    /\ SideIdle
    /\ ecs = InitialEcs

Next == Submit \/ apply_inventory_requests \/ Drain

Spec == Init /\ [][Next]_vars

\* The running system with fewer kinds of requests, for the properties of
\* the request queue alone.
LiveMenuActions ==
    { SetAction("A", 0, Some(ItemStackNew(1, MaxCount, 1))),
      SetAction("X", 0, None),
      MoveAction("A", 0, "B", 0, 1, FALSE) }

SubmitLive ==
    /\ Len(queue) < MaxQueue
    /\ results = <<>>
    /\ \E id \in CorrIds, a \in LiveMenuActions :
          queue' = Append(queue, InventoryRequest(id, a))
    /\ UNCHANGED <<inv, results, changed, log, ecs>>
    /\ UNCHANGED side_vars

NextLive == SubmitLive \/ apply_inventory_requests \/ Drain

\* The system is in the Update schedule: it runs in every frame, so a run
\* that has requests to read is never postponed for ever.
SpecLive == Init /\ [][NextLive]_vars /\ WF_vars(apply_inventory_requests)

\* ------------------------------------------------ single-request runs

\* One run of the system over one request, from any world.
InitCmd ==
    /\ inv \in Worlds
    /\ \E a \in SetActions \cup MoveActions : queue = <<InventoryRequest(1, a)>>
    /\ results = <<>>
    /\ changed = <<>>
    /\ log = <<>>
    /\ SideIdle
    /\ ecs = InitialEcs

NextCmd == apply_inventory_requests

SpecCmd == InitCmd /\ [][NextCmd]_vars

\* --------------------------------------------------- two-request runs

\* The same Set sent twice in a row.
SetTwice ==
    {<<InventoryRequest(1, a), InventoryRequest(1, a)>> : a \in SetActions}

\* A Move with allow_swap between a slot of A and a slot of B, followed by
\* the Move in the opposite direction between the same two slots.
SwapAndBack ==
    {<<InventoryRequest(1, MoveAction("A", fs, "B", ts, n1, TRUE)),
       InventoryRequest(1, MoveAction("B", ts, "A", fs, n2, TRUE))>> :
        fs \in Slots, ts \in Slots, n1 \in Amounts, n2 \in Amounts}

\* One run of the system over two requests, from any world.
InitPair ==
    /\ inv \in Worlds
    /\ queue \in SetTwice \cup SwapAndBack
    /\ results = <<>>
    /\ changed = <<>>
    /\ log = <<>>
    /\ SideIdle
    /\ ecs = InitialEcs

NextPair == apply_inventory_requests

SpecPair == InitPair /\ [][NextPair]_vars

\* ----------------------------------------- a request and its follower

\* A Set of a live container's slot, sent after another request.
FollowUp ==
    InventoryRequest(0, SetAction("B", 0, Some(ItemStackNew(2, 1, MaxCount))))

\* One run of the system over any request followed by FollowUp, from any
\* world.
InitAfter ==
    /\ inv \in Worlds
    /\ queue \in {<<InventoryRequest(1, a), FollowUp>> :
                     a \in SetActions \cup MoveActions}
    /\ results = <<>>
    /\ changed = <<>>
    /\ log = <<>>
    /\ SideIdle
    /\ ecs = InitialEcs

NextAfter == apply_inventory_requests

SpecAfter == InitAfter /\ [][NextAfter]_vars

\* ------------------------------------------------- owners and containers

\* The capacity a container is built with.
BuildCapacity(c) == IF c = "A" THEN 2 ELSE 1

\* build_inventory(commands, owner, capacity): spawns container c with
\* Inventory::new(capacity) and InventoryOwnedBy(owner).  The relationship
\* is kept when the owner is alive; one that names an entity that no
\* longer exists is removed when it is inserted.
build_inventory ==
    \E o \in Owners, c \in {"A", "B"} :
        /\ c \notin DOMAIN inv
        /\ c \notin ecs.despawned
        /\ inv' = [e \in DOMAIN inv \cup {c} |->
                      IF e = c THEN InventoryNew(BuildCapacity(c)) ELSE inv[e]]
        /\ ecs' = [ecs EXCEPT !.owned_by =
                      IF o \in ecs.owners
                      THEN [e \in DOMAIN ecs.owned_by \cup {c} |->
                               IF e = c THEN o ELSE ecs.owned_by[e]]
                      ELSE ecs.owned_by]
        /\ UNCHANGED <<queue, results, changed, log>>
        /\ UNCHANGED side_vars

\* An owner entity is despawned: the containers linked to it are
\* despawned with it.
despawn_owner ==
    \E o \in ecs.owners :
        \E gone \in {LinkedContainers(ecs, o)} :
            /\ inv' = Restrict(inv, DOMAIN inv \ gone)
            /\ ecs' = [owners    |-> ecs.owners \ {o},
                       owned_by  |-> Restrict(ecs.owned_by,
                                              DOMAIN ecs.owned_by \ gone),
                       despawned |-> ecs.despawned \cup gone]
            /\ UNCHANGED <<queue, results, changed, log>>
            /\ UNCHANGED side_vars

\* The requests sent while owners come and go.
OwnMenuActions ==
    { SetAction("A", 0, Some(ItemStackNew(1, 1, MaxCount))),
      MoveAction("A", 0, "B", 0, 1, FALSE) }

SubmitOwn ==
    /\ Len(queue) < MaxQueue
    /\ results = <<>>
    /\ \E id \in CorrIds, a \in OwnMenuActions :
          queue' = Append(queue, InventoryRequest(id, a))
    /\ UNCHANGED <<inv, results, changed, log, ecs>>
    /\ UNCHANGED side_vars

\* Two owners alive and no container built yet.
InitOwn ==
    /\ inv = Restrict(InitialWorld, {})
    /\ queue = <<>>
    /\ results = <<>>
    /\ changed = <<>>
    /\ log = <<>>
    /\ SideIdle
    /\ ecs = [owners |-> Owners, owned_by |-> Restrict(InitialEcs.owned_by, {}),
              despawned |-> {}]

NextOwn ==
    \/ build_inventory
    \/ despawn_owner
    \/ SubmitOwn
    \/ apply_inventory_requests
    \/ Drain

SpecOwn == InitOwn /\ [][NextOwn]_vars

\* ---------------------------------------------- calls of absorb_from

MaxQty == 2

ItemInstances == {ItemInstance(i, q) : i \in ItemIds, q \in 0..MaxQty}

\* absorb_from is about to be called on any two instances with any
\* max_stack, below the quantities too.
InitAbsorb ==
    /\ inv = InitialWorld
    /\ queue = <<>>
    /\ results = <<>>
    /\ changed = <<>>
    /\ log = <<>>
    /\ ecs = InitialEcs
    /\ game = InitialGame
    /\ ui = InitialUi
    /\ absorb \in {[called |-> FALSE, max_stack |-> m,
                     pre |-> Some([self |-> a, other |-> b]),
                     post |-> None, ret |-> None] :
                        a \in ItemInstances, b \in ItemInstances,
                        m \in 0..(MaxQty + 1)}

\* The call.
AbsorbCall ==
    /\ ~absorb.called
    /\ IsSome(absorb.pre)
    /\ \E out \in {absorb_from(Unwrap(absorb.pre).self, Unwrap(absorb.pre).other,
                                 absorb.max_stack)} :
          absorb' = [absorb EXCEPT !.called = TRUE,
                                   !.post = Some([self |-> out.self, other |-> out.other]),
                                   !.ret = Some(out.ret)]
    /\ UNCHANGED <<inv_vars, game, ui>>

NextAbsorb == AbsorbCall

SpecAbsorb == InitAbsorb /\ [][NextAbsorb]_vars

\* ------------------------------------------------------ frames of the game

\* The player's yaw and translation are followed up to these.
MaxTurn == 2
MaxStep == 2

InRange(g) ==
    /\ g.player.yaw \in -MaxTurn..MaxTurn
    /\ g.player.translation[1] \in -MaxStep..MaxStep
    /\ g.player.translation[2] \in -MaxStep..MaxStep

\* A frame of the app with the input of that frame.
Frame ==
    /\ \E esc \in BOOLEAN, dx \in -1..1, dy \in -1..1, keys \in SUBSET {"W", "S", "A", "D"} :
          \E g \in {FrameOf(game, esc, <<dx, dy>>, keys)} :
              /\ InRange(g)
              /\ game' = g
    /\ UNCHANGED <<inv_vars, absorb, ui>>

InitGame ==
    /\ inv = InitialWorld
    /\ queue = <<>>
    /\ results = <<>>
    /\ changed = <<>>
    /\ log = <<>>
    /\ ecs = InitialEcs
    /\ absorb = AbsorbIdle
    /\ game = InitialGame
    /\ ui = InitialUi

NextGame == Frame

SpecGame == InitGame /\ [][NextGame]_vars

\* ------------------------------------------------------ frames of the UI

\* The sequences without repetition of the items of a set.
Orders(S) ==
    {q \in UNION {[1..n -> S] : n \in 0..Cardinality(S)} :
        \A a \in DOMAIN q, b \in DOMAIN q : a # b => q[a] # q[b]}

\* The inputs of a frame: the items whose Interaction changed to Pressed,
\* in the order the query yields them (none, one or both), the cursor, the
\* slot whose Interaction changed, and the release of the left button.
UiInputs ==
    [pressed : Orders(UiItems),
     cursor : {None} \cup {Some(c) : c \in CursorPx},
     slot : {None} \cup {Some([slot |-> sl, interaction |-> it]) :
                            sl \in UiSlots,
                            it \in {"Hovered", "None", "Pressed"}},
     released : BOOLEAN]

\* A frame of the UI: one run of Update on some input, the systems in some
\* order.
UiFrame ==
    /\ \E in \in UiInputs,
          order \in {o \in Orders(UiSystems) : Len(o) = Cardinality(UiSystems)},
          pick_first \in BOOLEAN :
          ui' = UiUpdate(ui, in, order, pick_first)
    /\ UNCHANGED <<inv_vars, absorb, game>>

InitUi ==
    /\ inv = InitialWorld
    /\ queue = <<>>
    /\ results = <<>>
    /\ changed = <<>>
    /\ log = <<>>
    /\ ecs = InitialEcs
    /\ absorb = AbsorbIdle
    /\ game = InitialGame
    /\ ui = InitialUi

NextUi == UiFrame

SpecUi == InitUi /\ [][NextUi]_vars

\* ------------------------------------------- moves over the whole word

\* Every value of a count word, and every ItemStack over those values:
\* nothing in ItemStack::new or Set relates count to max_stack.
Words == 0..WordMax

WordStacks ==
    {ItemStackNew(id, c, m) : id \in ItemIds, c \in Words, m \in Words}

\* Two Sets fill slot 0 of A with any stack and slot 0 of B with any stack
\* or nothing, and a Move from the one to the other follows with any amount.
InitWord ==
    /\ inv = InitialWorld
    /\ \E s \in WordStacks, p \in {None} \cup {Some(d) : d \in WordStacks},
          n \in Words, sw \in BOOLEAN :
          queue = << InventoryRequest(1, SetAction("A", 0, Some(s))),
                     InventoryRequest(1, SetAction("B", 0, p)),
                     InventoryRequest(1, MoveAction("A", 0, "B", 0, n, sw)) >>
    /\ results = <<>>
    /\ changed = <<>>
    /\ log = <<>>
    /\ SideIdle
    /\ ecs = InitialEcs

NextWord == apply_inventory_requests

SpecWord == InitWord /\ [][NextWord]_vars

\* ------------------------------------------------------------ properties

\* A step of the system that read at least one request.
IsPass == queue # <<>> /\ queue' = <<>>

\* The count held by slot i of entity e in world w, an empty slot counting 0.
CountAt(w, e, i) ==
    IF e \in DOMAIN w /\ i \in DOMAIN w[e].slots THEN w[e].slots[i].count ELSE 0

\* The content of slot i of entity e in world w.
StackAt(w, e, i) == InvGet(w[e], i)

\* The messages that report a container that was not found.
NotFoundDetails ==
    { Some("Inventory entity not found"),
      Some("Source or destination inventory not found") }

\* The entities a request names.
NamedEntities(a) ==
    IF a.kind = "Set" THEN {a.inv} ELSE {a.from_inv, a.to_inv}

\* r is the log entry of a Move between two distinct live containers with
\* both slots in bounds and a stack in the source slot.
IsCrossMove(r) ==
    LET a == r.req.action
    IN  /\ a.kind = "Move"
        /\ a.from_inv # a.to_inv
        /\ a.from_inv \in DOMAIN r.before
        /\ a.to_inv \in DOMAIN r.before
        /\ in_bounds(r.before[a.from_inv], a.from_slot)
        /\ in_bounds(r.before[a.to_inv], a.to_slot)
        /\ IsSome(StackAt(r.before, a.from_inv, a.from_slot))

SrcBefore(r) == Unwrap(StackAt(r.before, r.req.action.from_inv, r.req.action.from_slot))
DstBefore(r) == StackAt(r.before, r.req.action.to_inv, r.req.action.to_slot)
MoveN(r) == Min(r.req.action.amount, SrcBefore(r).count)

\* r is a cross-container Move onto a stack of the same item.
IsMergeCase(r) ==
    /\ IsCrossMove(r)
    /\ IsSome(DstBefore(r))
    /\ Unwrap(DstBefore(r)).id = SrcBefore(r).id

Take(r) == Min(MoveN(r), space_left(Unwrap(DstBefore(r))))

\* C1: a run of the system over n requests appends exactly n results, in
\* the order the requests were sent, the i-th carrying the id of the i-th
\* request, whether the request succeeded or failed.
C1_OneResultPerRequestInOrder ==
    [][IsPass =>
        /\ Len(results') = Len(results) + Len(queue)
        /\ SubSeq(results', 1, Len(results)) = results
        /\ \A i \in 1..Len(queue) :
              results'[Len(results) + i].id = queue[i].id]_vars

\* C1 witness: a run over two requests that reuse one id, the first
\* succeeding and the second failing, left two results.
C1_Witness ==
    /\ Len(log) = 2
    /\ Len(results) = 2
    /\ log[1].req.id = log[2].req.id
    /\ log[1].ok /\ ~log[2].ok
    /\ results[1].ok /\ ~results[2].ok

\* C2: a request that fails leaves every inventory as it was and emits no
\* InventoryChanged.
C2_FailureChangesNothing ==
    \A k \in DOMAIN log :
        ~results[k].ok =>
            /\ log[k].after = log[k].before
            /\ (k = Len(log) => inv = log[k].before)
            /\ log[k].changed = <<>>
            /\ (Len(log) = 1 => changed = <<>>)

\* C2 witness: a Move failed at its last check, the merge into a full
\* stack, with stacks in both slots.
C2_Witness ==
    /\ Len(log) = 1
    /\ ~results[1].ok
    /\ results[1].details = Some("Destination stack full")
    /\ IsMergeCase(log[1])
    /\ MoveN(log[1]) >= 1

\* C3 (as claimed): every stored stack has count <= max_stack.
C3_CountAtMostMaxStack ==
    \A e \in DOMAIN inv : \A k \in DOMAIN inv[e].slots :
        /\ 0 <= inv[e].slots[k].count
        /\ inv[e].slots[k].count <= inv[e].slots[k].max_stack

\* C4 (as claimed): no stored stack has count 0.
C4_NoZeroStackStored ==
    \A e \in DOMAIN inv : \A k \in DOMAIN inv[e].slots :
        inv[e].slots[k].count # 0

\* C5 (as claimed): the InventoryChanged events one run of the system
\* writes name pairwise different inventories.
C5_OneChangedPerInventoryPerPass ==
    [][IsPass =>
        \A i, j \in (Len(changed) + 1)..Len(changed') :
            i # j => changed'[i].inv # changed'[j].inv]_vars

\* C6: a successful Move between two distinct containers into an empty
\* slot or onto the same item keeps source.count + dest.count; when the
\* destination's space caps the merge, what did not fit stays on the source.
C6_MoveConservesCount ==
    \A k \in DOMAIN log :
        LET r == log[k]
            a == r.req.action
        IN  (IsCrossMove(r) /\ r.ok
             /\ (~IsSome(DstBefore(r)) \/ IsMergeCase(r))) =>
            /\ CountAt(r.after, a.from_inv, a.from_slot)
                 + CountAt(r.after, a.to_inv, a.to_slot)
               = CountAt(r.before, a.from_inv, a.from_slot)
                 + CountAt(r.before, a.to_inv, a.to_slot)
            /\ (IsMergeCase(r) /\ Take(r) < MoveN(r)) =>
                  /\ CountAt(r.after, a.from_inv, a.from_slot)
                       = SrcBefore(r).count - Take(r)
                  /\ CountAt(r.after, a.from_inv, a.from_slot)
                       >= MoveN(r) - Take(r)
                  /\ IsSome(StackAt(r.after, a.from_inv, a.from_slot))

\* C6 witness: a merge capped by the destination's space succeeded.
C6_Witness ==
    /\ Len(log) = 1
    /\ results[1].ok
    /\ IsMergeCase(log[1])
    /\ Take(log[1]) >= 1
    /\ Take(log[1]) < MoveN(log[1])
    /\ inv = log[1].after

\* C7 (as claimed): a Move inside one live container between two different
\* in-bounds slots, from a stack to an empty slot with amount >= 1,
\* succeeds, puts min(amount, source.count) items in the destination slot
\* and records both slot changes for that container.
C7_SameContainerMoveSucceeds ==
    \A k \in DOMAIN log :
        LET r == log[k]
            a == r.req.action
        IN  (/\ a.kind = "Move"
             /\ a.from_inv = a.to_inv
             /\ a.from_inv \in DOMAIN r.before
             /\ a.from_slot # a.to_slot
             /\ in_bounds(r.before[a.from_inv], a.from_slot)
             /\ in_bounds(r.before[a.to_inv], a.to_slot)
             /\ IsSome(StackAt(r.before, a.from_inv, a.from_slot))
             /\ ~IsSome(StackAt(r.before, a.to_inv, a.to_slot))
             /\ a.amount >= 1) =>
            /\ r.ok
            /\ CountAt(r.after, a.to_inv, a.to_slot) = MoveN(r)
            /\ CountAt(r.after, a.from_inv, a.from_slot)
                 = SrcBefore(r).count - MoveN(r)
            /\ Len(r.changed) = 1
            /\ r.changed[1].inv = a.from_inv
            /\ Len(r.changed[1].changes) = 2

\* C8: a Move from a slot of a container to the same slot of the same
\* container leaves the container's slots as they were and gets exactly
\* one result, for any slot content, amount and allow_swap.
C8_SameSlotMoveChangesNothing ==
    \A k \in DOMAIN log :
        LET r == log[k]
            a == r.req.action
        IN  (a.kind = "Move" /\ a.from_inv = a.to_inv
             /\ a.from_slot = a.to_slot) =>
            /\ r.after = r.before
            /\ (k = Len(log) => inv = r.before)
            /\ Len(results) = Len(log)
            /\ results[k].id = r.req.id

\* C8 witness: such a Move was applied to a live container whose slot holds
\* a stack with free space, with amount >= 1.
C8_Witness ==
    /\ Len(log) = 1
    /\ Len(results) = 1
    /\ LET a == log[1].req.action
       IN  /\ a.kind = "Move"
           /\ a.from_inv = a.to_inv
           /\ a.from_slot = a.to_slot
           /\ a.from_inv \in DOMAIN log[1].before
           /\ a.amount >= 1
           /\ IsSome(StackAt(log[1].before, a.from_inv, a.from_slot))
           /\ space_left(Unwrap(StackAt(log[1].before, a.from_inv, a.from_slot))) >= 1

\* C9 (as claimed): a result reports that a container was not found only
\* if a handle the request names has no live container.
C9_NotFoundOnlyForMissingContainer ==
    \A k \in DOMAIN log :
        results[k].details \in NotFoundDetails =>
            \E e \in NamedEntities(log[k].req.action) : e \notin DOMAIN log[k].before

\* C10: a cross-container Move onto the same item with move_n >= 1 and
\* take = min(move_n, space_left) >= 1 succeeds, also when take < move_n;
\* the destination grows by take, the source shrinks by take (cleared at
\* 0), and two InventoryChanged are emitted, one per container.
C10_MergeTransfersWhatFits ==
    \A k \in DOMAIN log :
        LET r == log[k]
            a == r.req.action
        IN  (IsMergeCase(r) /\ MoveN(r) >= 1 /\ Take(r) >= 1) =>
            /\ r.ok
            /\ results[k].ok
            /\ StackAt(r.after, a.to_inv, a.to_slot)
                 = Some([Unwrap(DstBefore(r)) EXCEPT
                            !.count = Unwrap(DstBefore(r)).count + Take(r)])
            /\ StackAt(r.after, a.from_inv, a.from_slot)
                 = IF SrcBefore(r).count = Take(r) THEN None
                   ELSE Some([SrcBefore(r) EXCEPT
                                !.count = SrcBefore(r).count - Take(r)])
            /\ Len(r.changed) = 2
            /\ {r.changed[1].inv, r.changed[2].inv} = {a.from_inv, a.to_inv}
            /\ (Len(log) = 1 => changed = r.changed /\ inv = r.after)

\* C10 witness: a merge of which only a part fitted was applied.
C10_Witness ==
    /\ Len(log) = 1
    /\ IsMergeCase(log[1])
    /\ Take(log[1]) >= 1
    /\ Take(log[1]) < MoveN(log[1])
    /\ Len(changed) = 2
    /\ CountAt(inv, log[1].req.action.from_inv, log[1].req.action.from_slot) >= 1

\* C11: the same Set applied twice in a row to a live container and an
\* in-bounds slot gives two results with ok = true, and the slot (and the
\* whole world) after the second is what it was after the first.
C11_SetIsIdempotent ==
    (Len(log) = 2
     /\ log[1].req.action.kind = "Set"
     /\ log[2].req.action = log[1].req.action
     /\ log[1].req.action.inv \in DOMAIN log[1].before
     /\ in_bounds(log[1].before[log[1].req.action.inv], log[1].req.action.slot)) =>
        LET a == log[1].req.action
        IN  /\ Len(results) = 2
            /\ results[1].ok /\ results[2].ok
            /\ StackAt(log[1].after, a.inv, a.slot) = a.stack
            /\ StackAt(inv, a.inv, a.slot) = StackAt(log[1].after, a.inv, a.slot)
            /\ inv = log[1].after

\* C11 witness: a Set of a stack onto a slot that held a stack of the same
\* item was applied twice.
C11_Witness ==
    /\ Len(log) = 2
    /\ log[1].req.action.kind = "Set"
    /\ log[2].req.action = log[1].req.action
    /\ results[1].ok /\ results[2].ok
    /\ LET a == log[1].req.action
           old == StackAt(log[1].before, a.inv, a.slot)
       IN  /\ IsSome(a.stack) /\ IsSome(old)
           /\ Unwrap(old).id = Unwrap(a.stack).id
           /\ Unwrap(a.stack).count >= 1
           /\ Unwrap(old).count >= 1

\* The log is that of a Move with allow_swap between two slots holding
\* different items, asked with the full count of its source, followed by
\* the opposite Move, asked with the full count of its source.
IsSwapAndBack ==
    /\ Len(log) = 2
    /\ log[1].req.action.kind = "Move"
    /\ log[2].req.action.kind = "Move"
    /\ LET a == log[1].req.action
           b == log[2].req.action
       IN  /\ a.allow_swap /\ b.allow_swap
           /\ b.from_inv = a.to_inv /\ b.from_slot = a.to_slot
           /\ b.to_inv = a.from_inv /\ b.to_slot = a.from_slot
           /\ IsCrossMove(log[1])
           /\ IsSome(DstBefore(log[1]))
           /\ Unwrap(DstBefore(log[1])).id # SrcBefore(log[1]).id
           /\ a.amount = SrcBefore(log[1]).count
           /\ IsCrossMove(log[2])
           /\ b.amount = SrcBefore(log[2]).count

\* C12 (as claimed): a full-stack swap followed by the opposite full-stack
\* swap restores the original content of both slots.
C12_SwapIsItsOwnInverse ==
    IsSwapAndBack =>
        LET a == log[1].req.action
        IN  /\ StackAt(inv, a.from_inv, a.from_slot)
                 = StackAt(log[1].before, a.from_inv, a.from_slot)
            /\ StackAt(inv, a.to_inv, a.to_slot)
                 = StackAt(log[1].before, a.to_inv, a.to_slot)


\* r is the log entry of a Move between two distinct live containers with
\* both slots in bounds.
IsCrossMoveInBounds(r) ==
    LET a == r.req.action
    IN  /\ a.kind = "Move"
        /\ a.from_inv # a.to_inv
        /\ a.from_inv \in DOMAIN r.before
        /\ a.to_inv \in DOMAIN r.before
        /\ in_bounds(r.before[a.from_inv], a.from_slot)
        /\ in_bounds(r.before[a.to_inv], a.to_slot)

\* C13: a Move between two distinct live containers and in-bounds slots
\* whose source slot is empty fails with "Source slot empty", whatever the
\* amount, allow_swap and the destination, and changes nothing.
C13_EmptySourceFails ==
    \A k \in DOMAIN log :
        LET r == log[k]
            a == r.req.action
        IN  (IsCrossMoveInBounds(r)
             /\ ~IsSome(StackAt(r.before, a.from_inv, a.from_slot))) =>
            /\ ~results[k].ok
            /\ results[k].details = Some("Source slot empty")
            /\ r.after = r.before
            /\ (k = Len(log) => inv = r.before)

\* C13 witness: such a Move was applied with amount >= 1, allow_swap and
\* a stack in the destination slot.
C13_Witness ==
    /\ Len(log) = 1
    /\ Len(results) = 1
    /\ IsCrossMoveInBounds(log[1])
    /\ ~IsSome(StackAt(log[1].before, log[1].req.action.from_inv,
                       log[1].req.action.from_slot))
    /\ IsSome(DstBefore(log[1]))
    /\ log[1].req.action.amount >= 1
    /\ log[1].req.action.allow_swap

\* r is a cross-container Move with allow_swap and 1 <= amount <
\* source.count onto a stack of another item.
IsPartialSwap(r) ==
    /\ IsCrossMove(r)
    /\ r.req.action.allow_swap
    /\ r.req.action.amount >= 1
    /\ r.req.action.amount < SrcBefore(r).count
    /\ IsSome(DstBefore(r))
    /\ Unwrap(DstBefore(r)).id # SrcBefore(r).id

\* C14: a partial-amount Move with allow_swap onto another item fails with
\* the incompatible-destination message and changes nothing.
C14_PartialSwapFails ==
    \A k \in DOMAIN log :
        IsPartialSwap(log[k]) =>
            /\ ~results[k].ok
            /\ results[k].details =
                 Some("Destination occupied by different item (swap not allowed)")
            /\ log[k].after = log[k].before
            /\ (k = Len(log) => inv = log[k].before)

\* C14 witness: a partial swap was asked and answered.
C14_Witness ==
    /\ Len(log) = 1
    /\ Len(results) = 1
    /\ IsPartialSwap(log[1])

\* C15: every key of a slot map is below the capacity, so get(i) is None
\* for every i >= capacity.
C15_KeysBelowCapacity ==
    \A e \in DOMAIN inv :
        /\ \A k \in DOMAIN inv[e].slots : k < inv[e].capacity
        /\ \A i \in Slots \cup {inv[e].capacity, inv[e].capacity + 1} :
              i >= inv[e].capacity => InvGet(inv[e], i) = None

\* C15 witness: requests naming a slot >= capacity were applied: a Set of a
\* stack, or a Move from a stack towards such a slot.
C15_Witness ==
    /\ Len(log) = 1
    /\ LET a == log[1].req.action
       IN  \/ /\ a.kind = "Set"
              /\ a.inv \in DOMAIN log[1].before
              /\ ~in_bounds(log[1].before[a.inv], a.slot)
              /\ IsSome(a.stack)
           \/ /\ a.kind = "Move"
              /\ a.from_inv # a.to_inv
              /\ a.from_inv \in DOMAIN log[1].before
              /\ a.to_inv \in DOMAIN log[1].before
              /\ ~in_bounds(log[1].before[a.to_inv], a.to_slot)
              /\ IsSome(StackAt(log[1].before, a.from_inv, a.from_slot))
              /\ a.amount >= 1

\* r is the log entry of a Set on a live container and an in-bounds slot.
IsValidSet(r) ==
    /\ r.req.action.kind = "Set"
    /\ r.req.action.inv \in DOMAIN r.before
    /\ in_bounds(r.before[r.req.action.inv], r.req.action.slot)

\* C16: a Set on a live container with slot < capacity succeeds whatever
\* the slot held and whatever the payload; the slot then holds the payload
\* and one InventoryChanged for that container is emitted, with the single
\* entry {slot, payload}.
C16_SetAlwaysSucceeds ==
    \A k \in DOMAIN log :
        LET r == log[k]
            a == r.req.action
        IN  IsValidSet(r) =>
            /\ results[k].ok
            /\ results[k].details = None
            /\ StackAt(r.after, a.inv, a.slot) = a.stack
            /\ r.changed = <<InventoryChanged(a.inv, <<SlotChange(a.slot, a.stack)>>)>>
            /\ (Len(log) = 1 => inv = r.after /\ changed = r.changed)

\* C16 witness: Set of None on an empty slot of an empty container.
C16_Witness ==
    /\ Len(log) = 1
    /\ IsValidSet(log[1])
    /\ log[1].req.action.stack = None
    /\ log[1].before = InitialWorld
    /\ Len(changed) = 1
    /\ changed[1].changes[1].new_stack = None


\* The number of events of a buffer that carry correlation id k.
CountId(events, k) == Cardinality({i \in DOMAIN events : events[i].id = k})

\* C17: every request sent is applied exactly once.  A step that writes
\* results reads the whole queue, leaves nothing to read again and writes,
\* for each id k, as many results as the queue held requests with id k;
\* and, the system running in every frame, n pending requests with id k
\* lead to n results with id k and an empty queue.
C17_EveryRequestAppliedOnce ==
    /\ [][(results' # results /\ results' # <<>>) =>
            /\ queue' = <<>>
            /\ \A k \in CorrIds :
                  CountId(results', k) = CountId(results, k) + CountId(queue, k)]_vars
    /\ \A k \in CorrIds : \A n \in 1..MaxQueue :
          (CountId(queue, k) >= n) ~> (queue = <<>> /\ CountId(results, k) >= n)

\* C17 witness: two requests with the same id were pending together and
\* both got their result in one run.
C17_Witness ==
    /\ queue = <<>>
    /\ Len(log) = 2
    /\ log[1].req.id = 1 /\ log[2].req.id = 1
    /\ CountId(results, 1) = 2
    /\ CountId(results, 0) = 0


\* Every count stored in world w lies in the range of the counts and
\* max_stack values the inputs hold: no "-=" went below zero and no "+="
\* went above what a stack was declared to hold.
CountsInRange(w) ==
    \A e \in DOMAIN w : \A i \in DOMAIN w[e].slots :
        w[e].slots[i].count \in 0..MaxCount

\* C18: a failing or malformed request does not end the run of the system.
\* Whatever the first request is (missing entity, slot out of bounds, zero
\* amount, any stack), the request sent after it is applied in the same run
\* to the world the first one left, gets its own result, and no count
\* computed on the way leaves its range.
C18_FailureDoesNotAbortPass ==
    (queue = <<>>) =>
        /\ Len(log) = 2
        /\ Len(results) = 2
        /\ log[2].req = FollowUp
        /\ log[2].before = log[1].after
        /\ results[1].id = 1
        /\ results[2] = InventoryResult(FollowUp.id, TRUE, None)
        /\ StackAt(inv, "B", 0) = FollowUp.action.stack
        /\ \A k \in 1..2 : CountsInRange(log[k].after)
        /\ ~log[1].ok => (log[1].after = log[1].before /\ IsSome(results[1].details))

\* C18 witness: the first request failed on a slot out of bounds and the
\* follower was applied.
C18_Witness ==
    /\ queue = <<>>
    /\ Len(log) = 2
    /\ ~log[1].ok
    /\ log[1].details = Some("Slot out of bounds")
    /\ log[2].ok
    /\ StackAt(inv, "B", 0) = FollowUp.action.stack


\* The world reached from w by the requests reqs taken one at a time, each
\* as a run of its own: the last one is applied to what the others left.
RECURSIVE OneAtATime(_, _)
OneAtATime(w, reqs) ==
    IF reqs = <<>> THEN w
    ELSE ApplyAction(OneAtATime(w, SubSeq(reqs, 1, Len(reqs) - 1)),
                     reqs[Len(reqs)].action).world

\* C19: the requests of one run are applied in the order they were sent and
\* each sees all the earlier ones did.  The world after a run over
\* c1 .. cn is the world of applying c1, then c2, .. then cn one at a time;
\* request k met the world left by c1 .. c(k-1) and its result is the one
\* it has on that world.
C19_PassIsSequential ==
    [][IsPass =>
        /\ inv' = OneAtATime(inv, queue)
        /\ Len(log') = Len(queue)
        /\ \A k \in 1..Len(queue) :
              LET w == OneAtATime(inv, SubSeq(queue, 1, k - 1))
              IN  /\ log'[k].req = queue[k]
                  /\ log'[k].before = w
                  /\ results'[k].id = queue[k].id
                  /\ results'[k].ok = ApplyAction(w, queue[k].action).ok]_vars

\* C19 witness: a Set filled an empty slot and the Move sent after it, in
\* the same run, took the stack out of that slot.
C19_Witness ==
    /\ queue = <<>>
    /\ Len(log) = 2
    /\ log[1].req.action = SetAction("A", 0, Some(ItemStackNew(1, MaxCount, 1)))
    /\ StackAt(log[1].before, "A", 0) = None
    /\ log[2].req.action = MoveAction("A", 0, "B", 0, 1, FALSE)
    /\ log[2].ok
    /\ StackAt(inv, "B", 0) = Some(ItemStackNew(1, 1, 1))


\* A step that despawns owner o.
IsDespawnOf(o) == o \in ecs.owners /\ o \notin ecs'.owners

\* C20: despawning an owner despawns every container built for it.  The
\* step that despawns owner o removes exactly the containers owned by o
\* and leaves every other container as it was; no container is owned by an
\* owner that is gone; a despawned container is never live again; and a
\* request that names a despawned container fails with a not-found reason.
C20_OwnerDespawnCascades ==
    /\ [][\A o \in Owners : IsDespawnOf(o) =>
            /\ \A c \in DOMAIN inv :
                  IF c \in DOMAIN ecs.owned_by /\ ecs.owned_by[c] = o
                  THEN c \notin DOMAIN inv' /\ c \in ecs'.despawned
                  ELSE c \in DOMAIN inv' /\ inv'[c] = inv[c]
            /\ \A c \in DOMAIN ecs'.owned_by : ecs'.owned_by[c] = ecs.owned_by[c]]_vars
    /\ [](/\ \A c \in DOMAIN ecs.owned_by :
               c \in DOMAIN inv /\ ecs.owned_by[c] \in ecs.owners
           /\ ecs.despawned \cap DOMAIN inv = {})
    /\ [][IsPass =>
            \A k \in 1..Len(queue) :
                NamedEntities(queue[k].action) \cap ecs.despawned # {} =>
                    /\ results'[k].id = queue[k].id
                    /\ ~results'[k].ok
                    /\ results'[k].details \in NotFoundDetails
                    /\ log'[k].after = log'[k].before]_vars

\* C20 witness: owner "P" owned container "A" and was despawned while "Q"
\* lives on with its container "B"; a Set that names "A" then failed.
C20_Witness ==
    /\ "P" \notin ecs.owners
    /\ "A" \in ecs.despawned
    /\ "A" \notin DOMAIN inv
    /\ "B" \in DOMAIN inv
    /\ "B" \in DOMAIN ecs.owned_by
    /\ ecs.owned_by["B"] = "Q"
    /\ Len(log) >= 1
    /\ log[1].req.action.kind = "Set"
    /\ log[1].details = Some("Inventory entity not found")


\* The rules of a Move in their order, on world w: the reason of the first
\* one that Move a violates, None when it violates none.  A container is
\* resolved when it is live, the same one named twice included.
FirstRuleViolated(w, a) ==
    IF a.from_inv \notin DOMAIN w \/ a.to_inv \notin DOMAIN w
    THEN Some("Source or destination inventory not found")
    ELSE IF ~in_bounds(w[a.from_inv], a.from_slot)
            \/ ~in_bounds(w[a.to_inv], a.to_slot)
    THEN Some("Slot out of bounds")
    ELSE IF ~IsSome(StackAt(w, a.from_inv, a.from_slot))
    THEN Some("Source slot empty")
    ELSE
      LET src == Unwrap(StackAt(w, a.from_inv, a.from_slot))
          dst == StackAt(w, a.to_inv, a.to_slot)
      IN  IF Min(a.amount, src.count) = 0 THEN Some("Move amount is zero")
          ELSE IF ~IsSome(dst) THEN None
          ELSE IF Unwrap(dst).id = src.id
          THEN IF space_left(Unwrap(dst)) = 0
               THEN Some("Destination stack full") ELSE None
          ELSE IF a.allow_swap /\ a.amount >= src.count THEN None
          ELSE Some("Destination occupied by different item (swap not allowed)")

\* C21 (as claimed): the reason a failed Move reports is that of the first
\* rule it violates, in the order container resolution, slot bounds, source
\* slot empty, zero amount, destination rules.
C21_ReasonIsFirstRuleViolated ==
    \A k \in DOMAIN log :
        (log[k].req.action.kind = "Move" /\ ~log[k].ok) =>
            results[k].details = FirstRuleViolated(log[k].before, log[k].req.action)


\* C22: a Move between two distinct live containers, slots in bounds, a
\* stack in the source, move_n = min(amount, source.count) >= 1 and an
\* empty destination slot succeeds; the destination then holds the source's
\* id and max_stack with count move_n, and the source holds its stack with
\* move_n less, or nothing when that is 0.
C22_MoveToEmptyDestination ==
    \A k \in DOMAIN log :
        LET r == log[k]
            a == r.req.action
        IN  (IsCrossMove(r) /\ MoveN(r) >= 1 /\ ~IsSome(DstBefore(r))) =>
            /\ results[k].ok
            /\ results[k].details = None
            /\ StackAt(r.after, a.to_inv, a.to_slot) =
                  Some(ItemStackNew(SrcBefore(r).id, MoveN(r), SrcBefore(r).max_stack))
            /\ StackAt(r.after, a.from_inv, a.from_slot) =
                  IF SrcBefore(r).count = MoveN(r) THEN None
                  ELSE Some(ItemStackNew(SrcBefore(r).id,
                                         SrcBefore(r).count - MoveN(r),
                                         SrcBefore(r).max_stack))
            /\ (k = Len(log) => inv = r.after)

\* C22 witness: the whole source stack, of more than one unit, was moved to
\* an empty slot and the source slot was cleared.
C22_Witness ==
    /\ Len(log) = 1
    /\ IsCrossMove(log[1])
    /\ ~IsSome(DstBefore(log[1]))
    /\ MoveN(log[1]) = MaxCount
    /\ StackAt(inv, log[1].req.action.from_inv, log[1].req.action.from_slot) = None
    /\ IsSome(StackAt(inv, log[1].req.action.to_inv, log[1].req.action.to_slot))

\* r is the log entry of a Move between two distinct live containers, slots
\* in bounds, onto a destination that holds another item than the source.
IsOntoOtherItem(r) ==
    /\ IsCrossMove(r)
    /\ IsSome(DstBefore(r))
    /\ Unwrap(DstBefore(r)).id # SrcBefore(r).id

\* The two slots of Move r hold, after it, each other's stack of before.
Exchanged(r) ==
    /\ StackAt(r.after, r.req.action.to_inv, r.req.action.to_slot) = Some(SrcBefore(r))
    /\ StackAt(r.after, r.req.action.from_inv, r.req.action.from_slot) = DstBefore(r)

IncompatibleDetails ==
    Some("Destination occupied by different item (swap not allowed)")

\* C23 (as claimed): onto a destination that holds another item, a Move
\* with allow_swap and amount >= source.count succeeds and exchanges the
\* two whole stacks; every other Move fails with the incompatible
\* destination reason.
C23_SwapOrIncompatible ==
    \A k \in DOMAIN log :
        LET r == log[k]
            a == r.req.action
        IN  IsOntoOtherItem(r) =>
            IF a.allow_swap /\ a.amount >= SrcBefore(r).count
            THEN results[k].ok /\ Exchanged(r)
            ELSE ~results[k].ok /\ results[k].details = IncompatibleDetails

\* C23 (amended): the same for the Moves that pass the zero amount rule,
\* move_n = min(amount, source.count) >= 1; a failed one changes nothing.
C23_SwapOrIncompatibleNonZero ==
    \A k \in DOMAIN log :
        LET r == log[k]
            a == r.req.action
        IN  (IsOntoOtherItem(r) /\ MoveN(r) >= 1) =>
            IF a.allow_swap /\ a.amount >= SrcBefore(r).count
            THEN /\ results[k].ok
                 /\ Exchanged(r)
                 /\ (k = Len(log) => inv = r.after)
            ELSE /\ ~results[k].ok
                 /\ results[k].details = IncompatibleDetails
                 /\ r.after = r.before

\* C23 witness: two stacks with different id, count and max_stack were
\* exchanged by a Move that asked for more than the source held.
C23_Witness ==
    /\ Len(log) = 1
    /\ IsOntoOtherItem(log[1])
    /\ log[1].ok
    /\ log[1].req.action.amount > SrcBefore(log[1]).count
    /\ SrcBefore(log[1]).max_stack # Unwrap(DstBefore(log[1])).max_stack
    /\ SrcBefore(log[1]).count # Unwrap(DstBefore(log[1])).count
    /\ Exchanged(log[1])


\* C24: absorb_from merges up to max_stack and keeps the total.  With the
\* same item, take = min(max(0, max_stack - self.qty), other.qty) units go
\* from other to self, the sum of the two quantities is unchanged and the
\* value returned is what other keeps, 0 exactly when all of other was
\* taken; with different items neither changes and other.qty is returned.
C24_AbsorbConservesTotal ==
    absorb.called =>
        LET a0 == Unwrap(absorb.pre).self
            b0 == Unwrap(absorb.pre).other
            a1 == Unwrap(absorb.post).self
            b1 == Unwrap(absorb.post).other
            ret == Unwrap(absorb.ret)
            room == absorb.max_stack - a0.qty
            take == Min(IF room > 0 THEN room ELSE 0, b0.qty)
        IN  /\ a1.item = a0.item /\ b1.item = b0.item
            /\ a1.qty + b1.qty = a0.qty + b0.qty
            /\ ret = b1.qty
            /\ IF a0.item = b0.item
               THEN /\ a1.qty = a0.qty + take
                    /\ b1.qty = b0.qty - take
                    /\ (ret = 0) = (take = b0.qty)
               ELSE /\ a1 = a0 /\ b1 = b0
                    /\ ret = b0.qty

\* C24 witness: a merge that max_stack cut short, part of other is left.
C24_Witness ==
    /\ absorb.called
    /\ Unwrap(absorb.pre).self = ItemInstance(1, 1)
    /\ Unwrap(absorb.pre).other = ItemInstance(1, MaxQty)
    /\ absorb.max_stack = 2
    /\ Unwrap(absorb.post).self.qty = 2
    /\ Unwrap(absorb.ret) = MaxQty - 1


CursorCaptured == ~game.cursor.visible /\ game.cursor.grab_mode = "Locked"
CursorFree == game.cursor.visible /\ game.cursor.grab_mode = "None"

\* C25 (as claimed): in every reachable state, the first included, the
\* cursor is hidden and locked exactly when GameState is Playing and
\* visible and not grabbed exactly when it is Paused.
C25_CursorMirrorsPause ==
    /\ (game.state = "Playing") = CursorCaptured
    /\ (game.state = "Paused") = CursorFree

\* C26 (as claimed): in a frame in which GameState is Paused, mouse motion
\* and movement keys leave the player's yaw, pitch and transform as they
\* were.
C26_PausedInputChangesNothing ==
    [][game.state = "Paused" => game'.player = game.player]_vars


\* A step in which drop_item_on_click_release handled a release: an item
\* was dragged and none is after it.
IsDrop == IsSome(ui.drag.item) /\ ~IsSome(ui'.drag.item)

\* C27 (as claimed): after drop_item_on_click_release handled a release,
\* item, origin_slot, hovered_slot and origin_free_drop_px are None and
\* grab_offset is zero, whatever was picked up and wherever it was dropped.
C27_DropResetsDragState ==
    [][IsDrop => ui'.drag = UiDragStateDefault]_vars

\* The items in dragged presentation: children of the overlay, or with
\* FocusPolicy::Pass.
Dragged(u) ==
    {i \in UiItems : u.nodes[i].parent = UiOverlay \/ u.nodes[i].focus = "Pass"}

\* C28 (as claimed): at most one item is dragged at a time.  While an item
\* is dragged no press changes drag.item, drag.origin_slot or the items in
\* dragged presentation, and a frame that starts a drag puts one item in
\* dragged presentation, however many became Pressed in it.
C28_OneItemDraggedAtATime ==
    /\ [][(IsSome(ui.drag.item) /\ IsSome(ui'.drag.item)) =>
            /\ ui'.drag.item = ui.drag.item
            /\ ui'.drag.origin_slot = ui.drag.origin_slot
            /\ Dragged(ui') = Dragged(ui)]_vars
    /\ [][(~IsSome(ui.drag.item) /\ IsSome(ui'.drag.item)) =>
            Dragged(ui') = Dragged(ui) \cup {Unwrap(ui'.drag.item)}]_vars


\* The mirror m after one InventoryChanged: the slots its entries name are
\* overwritten with their new_stack, in the order of the entries.
RECURSIVE OverwriteSlots(_, _, _)
OverwriteSlots(m, e, changes) ==
    IF changes = <<>> THEN m
    ELSE OverwriteSlots(WorldSet(m, e, Head(changes).slot, Head(changes).new_stack),
                        e, Tail(changes))

\* The mirror m after the notifications ns, in the order they were emitted.
RECURSIVE MirrorAfter(_, _)
MirrorAfter(m, ns) ==
    IF ns = <<>> THEN m
    ELSE MirrorAfter(OverwriteSlots(m, Head(ns).inv, Head(ns).changes), Tail(ns))

\* C29: the notifications suffice to track the containers.  A mirror that
\* starts equal to the containers and overwrites, for every InventoryChanged
\* in emission order, the slots named with their new_stack, is equal to the
\* containers after the run of the system.
C29_NotificationsTrackState ==
    log # <<>> => MirrorAfter(log[1].before, changed) = inv

\* C29 witness: a Move changed a slot of A and slot 0 of B, and the Set
\* sent after it overwrote slot 0 of B: three notifications, the last one
\* naming a slot that an earlier one names.
C29_Witness ==
    /\ Len(log) = 2
    /\ log[1].req.action.kind = "Move"
    /\ log[1].req.action.to_inv = "B"
    /\ log[1].ok
    /\ log[2].ok
    /\ Len(changed) = 3
    /\ inv # log[1].before
    /\ StackAt(log[1].after, "B", 0) # StackAt(inv, "B", 0)


\* Every stack stored in world w has 1 <= count <= max_stack.
StacksValid(w) ==
    \A e \in DOMAIN w : \A i \in DOMAIN w[e].slots :
        /\ w[e].slots[i].count >= 1
        /\ w[e].slots[i].count <= w[e].slots[i].max_stack

\* C30: a Move keeps the stacks valid.  If every stored stack has
\* 1 <= count <= max_stack before a Move, every stored stack has it after
\* the Move, failed or not, onto an empty slot, merged or swapped, also
\* when the two merged stacks have different max_stack.
C30_MoveKeepsStacksValid ==
    \A k \in DOMAIN log :
        (log[k].req.action.kind = "Move" /\ StacksValid(log[k].before)) =>
            /\ StacksValid(log[k].after)
            /\ (k = Len(log) => StacksValid(inv))

\* C30 witness: a merge of two valid stacks of one item whose max_stack
\* differ; the destination, with the larger one, is filled.
C30_Witness ==
    /\ Len(log) = 1
    /\ StacksValid(log[1].before)
    /\ IsMergeCase(log[1])
    /\ log[1].ok
    /\ SrcBefore(log[1]).max_stack < Unwrap(DstBefore(log[1])).max_stack
    /\ inv # log[1].before
    /\ is_full(Unwrap(StackAt(inv, log[1].req.action.to_inv, log[1].req.action.to_slot)))


\* The events a run of the system can emit from the present state with the
\* present queue: the results and the notifications, in order, for every
\* order in which the HashMap changed_per_inv can be iterated.
PassEvents ==
    {[results |-> st.results, changed |-> st.changed] :
        st \in {ApplyAll([world |-> inv, changed |-> <<>>,
                          results |-> <<>>, log |-> <<>>],
                         queue, flips, 1) :
                    flips \in [1..Len(queue) -> BOOLEAN]}}

\* C31 (as claimed): the results and notifications of a run are a function
\* of the containers and the queue: from one state with one queue there is
\* one sequence of events, the order of the two notifications of a Move
\* included.
C31_PassEventsDeterministic ==
    Cardinality(PassEvents) = 1


\* The slots a request names, as pairs of container and index.
NamedSlots(a) ==
    IF a.kind = "Set" THEN {<<a.inv, a.slot>>}
    ELSE {<<a.from_inv, a.from_slot>>, <<a.to_inv, a.to_slot>>}

\* C32: a successful request changes only the slots it names. The containers
\* that exist and their capacities are the same before and after, and every
\* slot of every container other than the one slot of a Set, or the source
\* and destination slots of a Move, holds what it held.
C32_SuccessChangesOnlyNamedSlots ==
    \A k \in DOMAIN log :
        LET r == log[k]
        IN  r.ok =>
            /\ DOMAIN r.after = DOMAIN r.before
            /\ \A e \in DOMAIN r.before :
                  /\ r.after[e].capacity = r.before[e].capacity
                  /\ \A i \in DOMAIN r.before[e].slots \cup DOMAIN r.after[e].slots :
                        <<e, i>> \notin NamedSlots(r.req.action) =>
                            StackAt(r.after, e, i) = StackAt(r.before, e, i)
            /\ (k = Len(log) => inv = r.after)

\* C32 witness: a Move from A slot 0 to B slot 0 succeeded and changed both,
\* while A slot 1, which it does not name, held a stack throughout.
C32_Witness ==
    /\ Len(log) = 1
    /\ log[1].ok
    /\ log[1].req.action.kind = "Move"
    /\ NamedSlots(log[1].req.action) = {<<"A", 0>>, <<"B", 0>>}
    /\ StackAt(log[1].before, "A", 0) # StackAt(inv, "A", 0)
    /\ StackAt(log[1].before, "B", 0) # StackAt(inv, "B", 0)
    /\ IsSome(StackAt(log[1].before, "A", 1))
    /\ StackAt(inv, "A", 1) = StackAt(log[1].before, "A", 1)


\* Every count stored in the world w fits the count word.
CountsInWord(w) ==
    \A e \in DOMAIN w : \A i \in DOMAIN w[e].slots :
        w[e].slots[i].count \in Words

\* C33: no count arithmetic of a Move leaves the count word, whatever
\* stacks Set wrote (count above max_stack, count 0, max_stack 0) and
\* whatever the amount. move_n is at most the source's count; the space of
\* the destination is a word; take is at most that space, and where counts
\* are changed (take >= 1) at most max_stack - dest.count; the destination's
\* count plus take is at most the largest word; the source's count minus
\* what leaves it is not negative; and the counts stored are those sums and
\* differences.
C33_MoveArithmeticInRange ==
    \A k \in DOMAIN log :
        LET r == log[k]
            a == r.req.action
        IN  IsCrossMove(r) =>
            /\ MoveN(r) \in Words
            /\ MoveN(r) <= SrcBefore(r).count
            /\ (MoveN(r) >= 1 /\ ~IsSome(DstBefore(r))) =>
                  /\ SrcBefore(r).count - MoveN(r) \in Words
                  /\ CountAt(r.after, a.to_inv, a.to_slot) = MoveN(r)
                  /\ CountAt(r.after, a.from_inv, a.from_slot)
                        = SrcBefore(r).count - MoveN(r)
            /\ (MoveN(r) >= 1 /\ IsMergeCase(r)) =>
                  LET d == Unwrap(DstBefore(r))
                  IN  /\ space_left(d) \in Words
                      /\ Take(r) <= space_left(d)
                      /\ Take(r) >= 1 =>
                            /\ Take(r) <= d.max_stack - d.count
                            /\ d.count + Take(r) <= WordMax
                            /\ SrcBefore(r).count - Take(r) \in Words
                            /\ CountAt(r.after, a.to_inv, a.to_slot)
                                  = d.count + Take(r)
                            /\ CountAt(r.after, a.from_inv, a.from_slot)
                                  = SrcBefore(r).count - Take(r)
            /\ CountsInWord(r.after)
            /\ (k = Len(log) => inv = r.after)

\* C33 witness: the source was written by Set with max_stack 0 and the
\* largest count, the Move asked for the largest amount, and the merge
\* filled the destination up to the largest word.
C33_Witness ==
    /\ Len(log) = 3
    /\ IsMergeCase(log[3])
    /\ log[3].ok
    /\ SrcBefore(log[3]).max_stack = 0
    /\ SrcBefore(log[3]).count = WordMax
    /\ log[3].req.action.amount = WordMax
    /\ Take(log[3]) >= 1
    /\ Take(log[3]) < MoveN(log[3])
    /\ CountAt(inv, "B", 0) = WordMax

====
